---- MODULE Spec2Model ----
(***************************************************************************)
(* Intibot: a monitoring loop that polls one Reddit submission, maps its   *)
(* score and keyword hits of every new comment to a vibration level and    *)
(* drives a Buttplug actuator through a level / hold / release pulse.      *)
(*                                                                         *)
(* Numbers that are floats in the program are exact rationals <<n, d>>     *)
(* with d > 0, kept in lowest terms.  Strings are sequences of one-letter  *)
(* strings.  An external interrupt is delivered while main is suspended in *)
(* an await (asyncio cancels the task at its current suspension point).    *)
(***************************************************************************)
EXTENDS Integers, Sequences, FiniteSets, TLC

\* ------------------------------------------------------------------ bounds
MaxCycles == 2
MaxFetch == 2
MaxAbsScore == 2
MaxDeviceChanges == 1
MaxRuns == 2
MaxCallScore == 4
MaxBodyLen == 2

\* -------------------------------------------------------- program constants
DEFAULT_POST_ID == <<"g", "x">>
DEFAULT_MIN_INTENSITY == <<1, 5>>
DEFAULT_MAX_UPVOTES == 100
DEFAULT_KEYWORDS == << <<"k","n","o","t">>, <<"p","u","p","p","y">>, <<"g","o","c","k">>, <<"s","t","u","p","i","d">>, <<"c","h","o","k","e">> >>
DEFAULT_MULTIPLIER == <<3, 2>>

\* ---------------------------------------------------------------- rationals
Abs(x) == IF x < 0 THEN -x ELSE x

RECURSIVE GCD(_, _)
GCD(a, b) == IF b = 0 THEN a ELSE GCD(b, a % b)

Norm(r) ==
    LET g == GCD(Abs(r[1]), r[2])
    IN  IF g = 0 THEN r ELSE <<r[1] \div g, r[2] \div g>>

RZero == <<0, 1>>
ROne == <<1, 1>>
RInt(i) == <<i, 1>>
RAdd(a, b) == Norm(<<a[1] * b[2] + b[1] * a[2], a[2] * b[2]>>)
RSub(a, b) == Norm(<<a[1] * b[2] - b[1] * a[2], a[2] * b[2]>>)
RMul(a, b) == Norm(<<a[1] * b[1], a[2] * b[2]>>)
RLeq(a, b) == a[1] * b[2] <= b[1] * a[2]
RMin(a, b) == IF RLeq(a, b) THEN a ELSE b

\* ------------------------------------------------------------------ strings
Lower(c) ==
    CASE c = "K" -> "k"
      [] c = "N" -> "n"
      [] c = "O" -> "o"
      [] c = "T" -> "t"
      [] c = "X" -> "x"
      [] OTHER -> c

StrLower(s) == [i \in 1..Len(s) |-> Lower(s[i])]

\* Python's `needle in haystack` on strings
StrIn(needle, haystack) ==
    \E i \in 0..(Len(haystack) - Len(needle)) :
        \A j \in 1..Len(needle) : haystack[i + j] = needle[j]

\* ----------------------------------------------------------------- state
VARIABLES
    pc,               \* position of main()
    MIN_INTENSITY, MAX_UPVOTES, KEYWORD_LIST, KEYWORD_INTENSITY_MULTIPLIER,
    seen_comment_ids, \* the module-level set
    fetched,          \* submission.comments.list() of the last fetch
    new_comments,     \* the part of the filtered list the for loop has not yet visited
    score,            \* submission.score as of the last fetch
    devices,          \* client.devices: a sequence of devices, each a sequence of actuators
    actuator,         \* send_vibration's local
    intensity,        \* main's local, the argument of send_vibration
    cycle,            \* number of fetches started
    session,          \* TRUE once client.connect has returned
    disconnects,      \* number of client.disconnect calls started
    cmdLog,           \* commands the actuators received, oldest first
    processed,        \* one record per comment the for loop classified
    interrupted,      \* "no", or the pc at which the interrupt was delivered
    errorAt,          \* "no", or the pc at which an exception was raised
    sinceInterrupt,   \* fetches and level commands started after the interrupt
    deviceChanges,    \* number of DeviceChange steps taken
    POST_ID,
    args,             \* argparse's namespace for this run
    cacheFile,        \* settings_cache.json on disk
    prevCacheFile,    \* settings_cache.json as the run found it
    cached,           \* the module-level dict load_cached_settings returned
    runs,             \* number of program starts so far
    startup,          \* "none", or how the module-level code of this run ended
    call              \* the last call of a pure function, with its result

vars == <<pc, MIN_INTENSITY, MAX_UPVOTES, KEYWORD_LIST, KEYWORD_INTENSITY_MULTIPLIER,
          seen_comment_ids, fetched, new_comments, score, devices, actuator, intensity,
          cycle, session, disconnects, cmdLog, processed, interrupted, errorAt,
          sinceInterrupt, deviceChanges, POST_ID, args, cacheFile, prevCacheFile, cached,
          runs, startup, call>>

settingsVars == <<POST_ID, MIN_INTENSITY, MAX_UPVOTES, KEYWORD_LIST, KEYWORD_INTENSITY_MULTIPLIER>>

startupVars == <<args, cacheFile, prevCacheFile, cached, runs, startup>>

loopVars == <<pc, seen_comment_ids, fetched, new_comments, score, devices, actuator, intensity, cycle,
              session, disconnects, cmdLog, processed, interrupted, errorAt, sinceInterrupt,
              deviceChanges>>

\* ------------------------------------------------------------- input sets
CommentIds == {"c1", "c2"}

\* comment.body of each comment the platform can return
CommentBody(id) == IF id = "c1" THEN <<"a", "K", "N", "O", "T">> ELSE <<"x">>

Comments == {[id |-> i, body |-> CommentBody(i)] : i \in CommentIds}

\* the listings of at most n comments, each comment at most once
RECURSIVE SeqsUpTo(_, _)
SeqsUpTo(S, n) ==
    IF n = 0 THEN {<<>>}
    ELSE LET shorter == SeqsUpTo(S, n - 1)
         IN  shorter \cup UNION {{Append(q, x) : x \in {y \in S : \A i \in 1..Len(q) : q[i] # y}} :
                                     q \in shorter}

\* submission.score: a downvoted, an unvoted and an upvoted thread
Scores == {-MaxAbsScore, 0, MaxAbsScore}

\* settings that satisfy the data model: minimum in [0,1], max upvotes > 0, multiplier >= 0
MinIntensities == {RZero, DEFAULT_MIN_INTENSITY, ROne}
MaxUpvotesSet == {2}
Multipliers == {RZero, DEFAULT_MULTIPLIER}
KeywordLists == {<< <<"k", "n", "o", "t">> >>}

\* client.devices as the scan or a later server message can leave it
DeviceConfigs == {<<>>, << <<>> >>, << <<"a1", "a2">> >>, << <<>>, <<"a3">> >>}

\* ------------------------------------------------------- program functions
\* calculate_intensity without the min(..., 1.0)
calculate_intensity_noclamp(post_score, multiplier) ==
    LET scaled == Norm(<<post_score, MAX_UPVOTES>>)
        base_intensity == RAdd(MIN_INTENSITY, RMul(RSub(ROne, MIN_INTENSITY), scaled))
    IN  RMul(base_intensity, multiplier)

\* calculate_intensity with (MIN_INTENSITY - 1.0) for (1.0 - MIN_INTENSITY)
calculate_intensity_signslip(post_score, multiplier) ==
    LET scaled == Norm(<<post_score, MAX_UPVOTES>>)
        base_intensity == RAdd(MIN_INTENSITY, RMul(RSub(MIN_INTENSITY, ROne), scaled))
    IN  RMin(RMul(base_intensity, multiplier), ROne)

\* calculate_intensity(post_score, multiplier)
calculate_intensity(post_score, multiplier) ==
    LET scaled == Norm(<<post_score, MAX_UPVOTES>>)
        base_intensity == RAdd(MIN_INTENSITY, RMul(RSub(ROne, MIN_INTENSITY), scaled))
    IN  RMin(RMul(base_intensity, multiplier), ROne)

\* get_new_comments without the `if comment.id not in seen_ids`
get_new_comments_unfiltered(comments, seen_ids) == comments

\* get_new_comments: the list comprehension over what the platform returned
get_new_comments(comments, seen_ids) ==
    SelectSeq(comments, LAMBDA comment : comment.id \notin seen_ids)

\* any(keyword in comment_text for keyword in KEYWORD_LIST)
KeywordDetected(body) ==
    LET comment_text == StrLower(body)
    IN  \E k \in 1..Len(KEYWORD_LIST) : StrIn(KEYWORD_LIST[k], comment_text)

\* the multiplier main selects for a comment
Boost(body) == IF KeywordDetected(body) THEN KEYWORD_INTENSITY_MULTIPLIER ELSE ROne

\* post_score = submission.score or 1
PostScore(submission_score) == IF submission_score # 0 THEN submission_score ELSE 1

\* send_vibration's guards: does it reach actuator.command?
HasActuator(devs) == devs # <<>> /\ devs[1] # <<>>

\* actuator = client.devices[0].actuators[-1]
FirstActuator_last(devs) == devs[1][Len(devs[1])]

\* actuator = client.devices[0].actuators[0]
FirstActuator(devs) == devs[1][1]

\* the first except clause without its return
OnStartupException_noreturn == "title"

\* where main goes when an Exception is raised inside the first try block
OnStartupException == "done"

\* where main goes when an Exception is raised inside the while loop
OnLoopException == "disconnect"

\* main without the finally clause
OnCancel_nofinally(p) == "done"

\* where main goes when the task is cancelled at pc p
OnCancel(p) ==
    IF p \in {"connect", "start_scanning", "scan_sleep", "stop_scanning"}
    THEN "done" ELSE "disconnect"

\* send_vibration returning after the hold, without the release command
AfterHold_norelease == "for"

\* send_vibration raising when it finds no device or no actuator
NoDeviceNext_raise == "disconnect"

\* where main goes when send_vibration only printed "No Buttplug devices
\* connected." or "No actuators on device.": back to the for loop
NoDeviceNext == "for"

\* where send_vibration goes after the hold sleep
AfterHold == "cmd_release"

Last(q) == q[Len(q)]

\* awaits of main and of send_vibration at which the task can be cancelled
SuspensionPoints ==
    {"connect", "start_scanning", "scan_sleep", "stop_scanning",
     "fetch", "cmd_level", "hold", "cmd_release", "cadence_sleep"}

CommandPoints == {"cmd_level", "cmd_release"}

\* the command in flight at a command await
InFlight(p) ==
    [kind |-> IF p = "cmd_level" THEN "level" ELSE "release",
     level |-> IF p = "cmd_level" THEN intensity ELSE RZero,
     actuator |-> actuator,
     comment |-> Last(processed).id,
     cycle |-> cycle]


\* ------------------------------------------- settings: values and the cache
\* an argparse attribute is None or the parsed value
None == [none |-> TRUE]
Some(v) == [some |-> v]

\* truthiness of an optional str: None and '' are falsy
StrTruthy(o) == o # None /\ o.some # <<>>

\* str.split(sep)
RECURSIVE Split(_, _)
Split(s, sep) ==
    IF \A i \in 1..Len(s) : s[i] # sep THEN <<s>>
    ELSE LET i == CHOOSE i \in 1..Len(s) : s[i] = sep /\ \A j \in 1..(i - 1) : s[j] # sep
         IN  <<SubSeq(s, 1, i - 1)>> \o Split(SubSeq(s, i + 1, Len(s)), sep)

\* JSON values as json.dump writes them and json.load reads them
JString(s) == [t |-> "string", s |-> s]
JInt(n) == [t |-> "int", n |-> n]
JReal(r) == [t |-> "real", r |-> r]
JArray(a) == [t |-> "array", a |-> a]

\* the Python value json.load builds from a JSON value (arrays here hold strings)
PyValue(j) ==
    CASE j.t = "string" -> j.s
      [] j.t = "int" -> j.n
      [] j.t = "real" -> j.r
      [] OTHER -> [i \in 1..Len(j.a) |-> j.a[i].s]

MissingFile == [exists |-> FALSE]
MalformedFile == [exists |-> TRUE, valid |-> FALSE]
ValidFile(doc) == [exists |-> TRUE, valid |-> TRUE, doc |-> doc]

EmptyDict == <<>>

\* load_cached_settings(): {} without a file, json.load's dict, or JSONDecodeError
load_cached_settings(file) ==
    IF ~file.exists THEN [ok |-> TRUE, dict |-> EmptyDict]
    ELSE IF ~file.valid THEN [ok |-> FALSE]
    ELSE [ok |-> TRUE, dict |-> [k \in DOMAIN file.doc |-> PyValue(file.doc[k])]]

\* save_cached_settings called with a dict that lacks the 'multiplier' entry
save_cached_settings_nomultiplier(settings) ==
    ValidFile([post_id |-> JString(settings.post_id),
               min_intensity |-> JReal(settings.min_intensity),
               max_upvotes |-> JInt(settings.max_upvotes),
               keywords |-> JArray([i \in 1..Len(settings.keywords) |->
                                        JString(settings.keywords[i])])])

\* save_cached_settings(settings): the file json.dump leaves
save_cached_settings(settings) ==
    ValidFile([post_id |-> JString(settings.post_id),
               min_intensity |-> JReal(settings.min_intensity),
               max_upvotes |-> JInt(settings.max_upvotes),
               keywords |-> JArray([i \in 1..Len(settings.keywords) |->
                                        JString(settings.keywords[i])]),
               multiplier |-> JReal(settings.multiplier)])

\* the reset without the os.remove
AfterReset_keep(a, file) == file

\* if args.reset and os.path.exists(CACHE_FILE): os.remove(CACHE_FILE)
AfterReset(a, file) == IF a.reset /\ file.exists THEN MissingFile ELSE file

\* dict.get(key, default)
Get(d, key, default) == IF key \in DOMAIN d THEN d[key] ELSE default

\* POST_ID = args.id or cached.get('post_id', 'gxvdih')
ResolvePostId(a, c) ==
    IF StrTruthy(a.id) THEN a.id.some ELSE Get(c, "post_id", DEFAULT_POST_ID)

\* MIN_INTENSITY = args.minimum or cached.get(...)
ResolveMinIntensity_falsy(a, c) ==
    IF a.minimum # None /\ a.minimum.some # RZero THEN a.minimum.some
    ELSE Get(c, "min_intensity", DEFAULT_MIN_INTENSITY)

\* MIN_INTENSITY = args.minimum if args.minimum is not None else cached.get(...)
ResolveMinIntensity(a, c) ==
    IF a.minimum # None THEN a.minimum.some
    ELSE Get(c, "min_intensity", DEFAULT_MIN_INTENSITY)

\* MAX_UPVOTES = args.max_upvotes if args.max_upvotes is not None else cached.get(...)
ResolveMaxUpvotes(a, c) ==
    IF a.max_upvotes # None THEN a.max_upvotes.some
    ELSE Get(c, "max_upvotes", DEFAULT_MAX_UPVOTES)

\* KEYWORD_LIST = args.keywords.split(",") if args.keywords else cached.get(...)
ResolveKeywordList(a, c) ==
    IF StrTruthy(a.keywords) THEN Split(a.keywords.some, ",")
    ELSE Get(c, "keywords", DEFAULT_KEYWORDS)

\* KEYWORD_INTENSITY_MULTIPLIER = args.multiplier if ... is not None else cached.get(...)
ResolveMultiplier(a, c) ==
    IF a.multiplier # None THEN a.multiplier.some
    ELSE Get(c, "multiplier", DEFAULT_MULTIPLIER)

\* command lines and cache files the runs are tried on
NoArgs == [id |-> None, minimum |-> None, max_upvotes |-> None, keywords |-> None,
           multiplier |-> None, reset |-> FALSE]

ArgsSet ==
    [id : {None, Some(<<>>), Some(<<"p">>)},
     minimum : {None, Some(RZero), Some(<<3, 10>>)},
     max_upvotes : {None, Some(0)},
     keywords : {None, Some(<<>>), Some(<<"k", ",", "x">>)},
     multiplier : {None, Some(<<2, 1>>)},
     reset : BOOLEAN]

\* a first start is tried on every command line, a later one on these
LaterArgs ==
    {NoArgs, [NoArgs EXCEPT !.reset = TRUE], [NoArgs EXCEPT !.minimum = Some(<<3, 10>>)],
     [NoArgs EXCEPT !.id = Some(<<>>), !.keywords = Some(<<"x">>)]}

ArgsOfRun(n) == IF n = 0 THEN ArgsSet ELSE LaterArgs

CacheKeys == {"post_id", "min_intensity", "max_upvotes", "keywords", "multiplier"}

CachedDoc ==
    [post_id |-> JString(<<"c">>), min_intensity |-> JReal(<<1, 2>>),
     max_upvotes |-> JInt(50), keywords |-> JArray(<<JString(<<"c">>)>>),
     multiplier |-> JReal(<<5, 4>>)]

CacheFiles ==
    {MissingFile, MalformedFile} \cup {ValidFile([k \in K |-> CachedDoc[k]]) : K \in SUBSET CacheKeys}

\* ---------------------------------------------------- settings: one start
\* the module-level code from the reset to save_cached_settings
Startup ==
    /\ runs < MaxRuns
    /\ \E a \in ArgsOfRun(runs) :
        LET loaded == load_cached_settings(AfterReset(a, cacheFile))
        IN  /\ loaded.ok
            /\ args' = a
            /\ cached' = loaded.dict
            /\ POST_ID' = ResolvePostId(a, loaded.dict)
            /\ MIN_INTENSITY' = ResolveMinIntensity(a, loaded.dict)
            /\ MAX_UPVOTES' = ResolveMaxUpvotes(a, loaded.dict)
            /\ KEYWORD_LIST' = ResolveKeywordList(a, loaded.dict)
            /\ KEYWORD_INTENSITY_MULTIPLIER' = ResolveMultiplier(a, loaded.dict)
    /\ cacheFile' = save_cached_settings(
           [post_id |-> POST_ID', min_intensity |-> MIN_INTENSITY',
            max_upvotes |-> MAX_UPVOTES', keywords |-> KEYWORD_LIST',
            multiplier |-> KEYWORD_INTENSITY_MULTIPLIER'])
    /\ prevCacheFile' = cacheFile
    /\ runs' = runs + 1
    /\ startup' = "ready"
    /\ UNCHANGED <<loopVars, call>>

\* json.load raises on the first read of the cache: the process ends there
StartupCrash ==
    /\ runs < MaxRuns
    /\ \E a \in ArgsOfRun(runs) :
        /\ ~load_cached_settings(AfterReset(a, cacheFile)).ok
        /\ args' = a
        /\ cacheFile' = AfterReset(a, cacheFile)
    /\ prevCacheFile' = cacheFile
    /\ cached' = EmptyDict
    /\ runs' = runs + 1
    /\ startup' = "crashed"
    /\ UNCHANGED <<loopVars, settingsVars, call>>

NoCall == [fn |-> "none"]

\* main has not run: the module-level set is empty, nothing is connected
LoopInit ==
    /\ seen_comment_ids = {}
    /\ fetched = <<>>
    /\ new_comments = <<>>
    /\ score = 0
    /\ devices = <<>>
    /\ actuator = "none"
    /\ intensity = RZero
    /\ cycle = 0
    /\ session = FALSE
    /\ disconnects = 0
    /\ cmdLog = <<>>
    /\ processed = <<>>
    /\ interrupted = "no"
    /\ errorAt = "no"
    /\ sinceInterrupt = 0
    /\ deviceChanges = 0

InitSettings ==
    /\ pc = "startup"
    /\ POST_ID = <<>>
    /\ MIN_INTENSITY = RZero
    /\ MAX_UPVOTES = 0
    /\ KEYWORD_LIST = <<>>
    /\ KEYWORD_INTENSITY_MULTIPLIER = RZero
    /\ LoopInit
    /\ args = NoArgs
    /\ cacheFile \in CacheFiles
    /\ prevCacheFile = MissingFile
    /\ cached = EmptyDict
    /\ runs = 0
    /\ startup = "none"
    /\ call = NoCall

NextSettings ==
    \/ Startup
    \/ StartupCrash

SpecSettings == InitSettings /\ [][NextSettings]_vars

\* ------------------------------------------------------------------- Init
Init ==
    /\ pc = "connect"
    /\ MIN_INTENSITY \in MinIntensities
    /\ MAX_UPVOTES \in MaxUpvotesSet
    /\ KEYWORD_LIST \in KeywordLists
    /\ KEYWORD_INTENSITY_MULTIPLIER \in Multipliers
    /\ LoopInit
    /\ POST_ID = DEFAULT_POST_ID
    /\ args = NoArgs
    /\ cacheFile = MissingFile
    /\ prevCacheFile = MissingFile
    /\ cached = EmptyDict
    /\ runs = 1
    /\ startup = "ready"
    /\ call = NoCall

\* ----------------------------------------------------------- main: startup
\* await client.connect(connector)
Connect ==
    /\ pc = "connect"
    /\ pc' = "start_scanning"
    /\ session' = TRUE
    /\ UNCHANGED <<settingsVars, startupVars, call, fetched, seen_comment_ids, new_comments, score, devices, actuator,
                   intensity, cycle, disconnects, cmdLog, processed, interrupted, errorAt,
                   sinceInterrupt, deviceChanges>>

ConnectError ==
    /\ pc = "connect"
    /\ pc' = OnStartupException
    /\ errorAt' = pc
    /\ UNCHANGED <<settingsVars, startupVars, call, fetched, seen_comment_ids, new_comments, score, devices, actuator,
                   intensity, cycle, session, disconnects, cmdLog, processed, interrupted,
                   sinceInterrupt, deviceChanges>>

\* await client.start_scanning(); await asyncio.sleep(1); await client.stop_scanning()
\* the devices the server reports during the window end up in client.devices
Scan ==
    /\ pc \in {"start_scanning", "scan_sleep", "stop_scanning"}
    /\ pc' = CASE pc = "start_scanning" -> "scan_sleep"
               [] pc = "scan_sleep" -> "stop_scanning"
               [] OTHER -> "title"
    /\ IF pc = "scan_sleep" THEN devices' \in DeviceConfigs ELSE devices' = devices
    /\ UNCHANGED <<settingsVars, startupVars, call, fetched, seen_comment_ids, new_comments, score, actuator,
                   intensity, cycle, session, disconnects, cmdLog, processed, interrupted,
                   errorAt, sinceInterrupt, deviceChanges>>

ScanError ==
    /\ pc \in {"start_scanning", "stop_scanning"}
    /\ pc' = OnStartupException
    /\ errorAt' = pc
    /\ UNCHANGED <<settingsVars, startupVars, call, fetched, seen_comment_ids, new_comments, score, devices, actuator,
                   intensity, cycle, session, disconnects, cmdLog, processed, interrupted,
                   sinceInterrupt, deviceChanges>>

\* submission = reddit.submission(id=POST_ID); print(submission.title) ...
\* the lazy submission is fetched here, outside both try blocks
Title ==
    /\ pc = "title"
    /\ pc' = "fetch"
    /\ cycle' = cycle + 1
    /\ UNCHANGED <<settingsVars, startupVars, call, fetched, seen_comment_ids, new_comments, score, devices, actuator,
                   intensity, session, disconnects, cmdLog, processed, interrupted, errorAt,
                   sinceInterrupt, deviceChanges>>

TitleError ==
    /\ pc = "title"
    /\ pc' = "done"
    /\ errorAt' = pc
    /\ UNCHANGED <<settingsVars, startupVars, call, fetched, seen_comment_ids, new_comments, score, devices, actuator,
                   intensity, cycle, session, disconnects, cmdLog, processed, interrupted,
                   sinceInterrupt, deviceChanges>>

\* --------------------------------------------------------- main: the loop
\* new_comments = await asyncio.to_thread(get_new_comments, submission, seen_comment_ids)
\* submission._fetch() also refreshes submission.score
Fetch ==
    /\ pc = "fetch"
    /\ \E comments \in SeqsUpTo(Comments, MaxFetch), s \in Scores :
        /\ fetched' = comments
        /\ new_comments' = get_new_comments(comments, seen_comment_ids)
        /\ score' = s
    /\ pc' = "for"
    /\ UNCHANGED <<settingsVars, startupVars, call, seen_comment_ids, devices, actuator, intensity, cycle,
                   session, disconnects, cmdLog, processed, interrupted, errorAt,
                   sinceInterrupt, deviceChanges>>

FetchError ==
    /\ pc = "fetch"
    /\ pc' = OnLoopException
    /\ errorAt' = pc
    /\ UNCHANGED <<settingsVars, startupVars, call, fetched, seen_comment_ids, new_comments, score, devices, actuator,
                   intensity, cycle, session, disconnects, cmdLog, processed, interrupted,
                   sinceInterrupt, deviceChanges>>

\* one iteration of `for comment in new_comments` up to the first await of
\* send_vibration: mark seen, classify, compute the intensity, pick the actuator
ProcessComment ==
    /\ pc = "for"
    /\ new_comments # <<>>
    /\ LET comment == Head(new_comments)
           multiplier == Boost(comment.body)
           post_score == PostScore(score)
           level == calculate_intensity(post_score, multiplier)
       IN  /\ seen_comment_ids' = seen_comment_ids \cup {comment.id}
           /\ new_comments' = Tail(new_comments)
           /\ intensity' = level
           /\ processed' = Append(processed,
                  [id |-> comment.id, cycle |-> cycle, multiplier |-> multiplier,
                   post_score |-> post_score, intensity |-> level,
                   commanded |-> HasActuator(devices)])
    /\ IF HasActuator(devices)
       THEN /\ actuator' = FirstActuator(devices)
            /\ pc' = "cmd_level"
            /\ sinceInterrupt' = IF interrupted # "no" THEN sinceInterrupt + 1
                                 ELSE sinceInterrupt
       ELSE /\ pc' = NoDeviceNext
            /\ UNCHANGED <<actuator, sinceInterrupt>>
    /\ UNCHANGED <<settingsVars, startupVars, call, fetched, score, devices, cycle, session, disconnects, cmdLog,
                   interrupted, errorAt, deviceChanges>>

\* await actuator.command(intensity) / await actuator.command(0.0) returns
Command ==
    /\ pc \in CommandPoints
    /\ cmdLog' = Append(cmdLog, InFlight(pc))
    /\ pc' = IF pc = "cmd_level" THEN "hold" ELSE "for"
    /\ UNCHANGED <<settingsVars, startupVars, call, fetched, seen_comment_ids, new_comments, score, devices, actuator,
                   intensity, cycle, session, disconnects, processed, interrupted, errorAt,
                   sinceInterrupt, deviceChanges>>

\* actuator.command raises; the device may or may not have received the command
CommandError ==
    /\ pc \in CommandPoints
    /\ cmdLog' \in {cmdLog, Append(cmdLog, InFlight(pc))}
    /\ pc' = OnLoopException
    /\ errorAt' = pc
    /\ UNCHANGED <<settingsVars, startupVars, call, fetched, seen_comment_ids, new_comments, score, devices, actuator,
                   intensity, cycle, session, disconnects, processed, interrupted,
                   sinceInterrupt, deviceChanges>>

\* await asyncio.sleep(VIBRATION_DURATION) returns
Hold ==
    /\ pc = "hold"
    /\ pc' = AfterHold
    /\ UNCHANGED <<settingsVars, startupVars, call, fetched, seen_comment_ids, new_comments, score, devices, actuator,
                   intensity, cycle, session, disconnects, cmdLog, processed, interrupted,
                   errorAt, sinceInterrupt, deviceChanges>>

\* the for loop is exhausted: await asyncio.sleep(1)
EndFor ==
    /\ pc = "for"
    /\ new_comments = <<>>
    /\ pc' = "cadence_sleep"
    /\ UNCHANGED <<settingsVars, startupVars, call, fetched, seen_comment_ids, new_comments, score, devices, actuator,
                   intensity, cycle, session, disconnects, cmdLog, processed, interrupted,
                   errorAt, sinceInterrupt, deviceChanges>>

\* the cadence sleep returns and `while True` starts the next fetch
CadenceSleep ==
    /\ pc = "cadence_sleep"
    /\ cycle < MaxCycles
    /\ pc' = "fetch"
    /\ cycle' = cycle + 1
    /\ sinceInterrupt' = IF interrupted # "no" THEN sinceInterrupt + 1 ELSE sinceInterrupt
    /\ UNCHANGED <<settingsVars, startupVars, call, fetched, seen_comment_ids, new_comments, score, devices, actuator,
                   intensity, session, disconnects, cmdLog, processed, interrupted, errorAt,
                   deviceChanges>>

\* finally: await client.disconnect()
Disconnect ==
    /\ pc = "disconnect"
    /\ disconnects' = disconnects + 1
    /\ pc' = "done"
    /\ UNCHANGED <<settingsVars, startupVars, call, fetched, seen_comment_ids, new_comments, score, devices, actuator,
                   intensity, cycle, session, cmdLog, processed, interrupted, errorAt,
                   sinceInterrupt, deviceChanges>>

\* ------------------------------------------------------------- environment
\* KeyboardInterrupt: asyncio.run cancels main at the await it is suspended in;
\* CancelledError is not an Exception, so only the finally clause sees it.
\* A command in flight may or may not have reached the device.
Interrupt ==
    /\ interrupted = "no"
    /\ pc \in SuspensionPoints
    /\ interrupted' = pc
    /\ pc' = OnCancel(pc)
    /\ IF pc \in CommandPoints
       THEN cmdLog' \in {cmdLog, Append(cmdLog, InFlight(pc))}
       ELSE cmdLog' = cmdLog
    /\ UNCHANGED <<settingsVars, startupVars, call, fetched, seen_comment_ids, new_comments, score, devices, actuator,
                   intensity, cycle, session, disconnects, processed, errorAt,
                   sinceInterrupt, deviceChanges>>

\* a device is added or removed by a server message while main is suspended in
\* the loop.  main reads client.devices only at the start of send_vibration, so
\* a change during any await between two reads is taken at one of them: the
\* fetch for a change between cycles, the hold for a change during a pulse.
DeviceChange ==
    /\ pc \in {"fetch", "hold"}
    /\ deviceChanges < MaxDeviceChanges
    /\ deviceChanges' = deviceChanges + 1
    /\ devices' \in DeviceConfigs \ {devices}
    /\ UNCHANGED <<settingsVars, startupVars, call, fetched, pc, seen_comment_ids, new_comments, score, actuator,
                   intensity, cycle, session, disconnects, cmdLog, processed, interrupted,
                   errorAt, sinceInterrupt>>

Next ==
    \/ Connect
    \/ ConnectError
    \/ Scan
    \/ ScanError
    \/ Title
    \/ TitleError
    \/ Fetch
    \/ FetchError
    \/ ProcessComment
    \/ Command
    \/ CommandError
    \/ Hold
    \/ EndFor
    \/ CadenceSleep
    \/ Disconnect
    \/ Interrupt
    \/ DeviceChange

Spec == Init /\ [][Next]_vars

\* the event loop keeps running main until it returns
FairSpec == Spec /\ WF_vars(Disconnect)

\* ------------------------------------------- calculate_intensity on its own
CallScores == (-MaxCallScore)..MaxCallScore
CallMinIntensities == {RZero, DEFAULT_MIN_INTENSITY, <<1, 2>>, ROne}
CallMaxUpvotes == {1, 3, DEFAULT_MAX_UPVOTES}
CallMultipliers == {RZero, <<1, 2>>, ROne, DEFAULT_MULTIPLIER, <<3, 1>>}

InitIntensity ==
    /\ pc = "startup"
    /\ LoopInit
    /\ POST_ID = DEFAULT_POST_ID
    /\ MIN_INTENSITY \in CallMinIntensities
    /\ MAX_UPVOTES \in CallMaxUpvotes
    /\ KEYWORD_LIST = DEFAULT_KEYWORDS
    /\ KEYWORD_INTENSITY_MULTIPLIER = DEFAULT_MULTIPLIER
    /\ args = NoArgs
    /\ cacheFile = MissingFile
    /\ prevCacheFile = MissingFile
    /\ cached = EmptyDict
    /\ runs = 1
    /\ startup = "ready"
    /\ call = NoCall

CallIntensity ==
    /\ \E s \in CallScores, m \in CallMultipliers :
        call' = [fn |-> "calculate_intensity", post_score |-> s, multiplier |-> m,
                 result |-> calculate_intensity(s, m)]
    /\ UNCHANGED <<loopVars, settingsVars, startupVars>>

NextIntensity == CallIntensity

SpecIntensity == InitIntensity /\ [][NextIntensity]_vars

\* ------------------------------------------- the keyword test on its own
MatchAlphabet == {"k", "K", "x"}

\* the strings of at most n letters
RECURSIVE StringsUpTo(_, _)
StringsUpTo(S, n) ==
    IF n = 0 THEN {<<>>}
    ELSE LET shorter == StringsUpTo(S, n - 1)
         IN  shorter \cup {Append(q, x) : q \in shorter, x \in S}

MatchBodies == StringsUpTo(MatchAlphabet, MaxBodyLen)

\* trigger lists as --keywords or the cache can configure them
MatchKeywordLists ==
    {<<>>, << <<"k">> >>, << <<"K">> >>, << <<"x">>, <<"k", "x">> >>,
     << <<"k", "K">> >>, << <<"x", "k">>, <<"K", "x">> >>, << <<>> >>}

InitMatch ==
    /\ pc = "startup"
    /\ LoopInit
    /\ POST_ID = DEFAULT_POST_ID
    /\ MIN_INTENSITY = DEFAULT_MIN_INTENSITY
    /\ MAX_UPVOTES = DEFAULT_MAX_UPVOTES
    /\ KEYWORD_LIST \in MatchKeywordLists
    /\ KEYWORD_INTENSITY_MULTIPLIER \in {RZero, DEFAULT_MULTIPLIER}
    /\ args = NoArgs
    /\ cacheFile = MissingFile
    /\ prevCacheFile = MissingFile
    /\ cached = EmptyDict
    /\ runs = 1
    /\ startup = "ready"
    /\ call = NoCall

\* main's choice of the multiplier for one comment body
CallBoost ==
    /\ \E body \in MatchBodies :
        call' = [fn |-> "Boost", body |-> body, detected |-> KeywordDetected(body),
                 result |-> Boost(body)]
    /\ UNCHANGED <<loopVars, settingsVars, startupVars>>

NextMatch == CallBoost

SpecMatch == InitMatch /\ [][NextMatch]_vars


\* ================================================================ claims
LoopPoints == {"fetch", "cmd_level", "hold", "cmd_release", "cadence_sleep"}

Ids(q) == [i \in 1..Len(q) |-> q[i].id]

\* C1: a comment id is classified, and has level commands issued for it, in
\* one cycle only: no later cycle processes an id an earlier cycle processed,
\* whatever the platform returns.
DedupAcrossCycles ==
    /\ \A i, j \in 1..Len(processed) :
        processed[i].id = processed[j].id => processed[i].cycle = processed[j].cycle
    /\ \A i \in 1..Len(cmdLog) : \A j \in 1..Len(processed) :
        cmdLog[i].comment = processed[j].id => cmdLog[i].cycle = processed[j].cycle

\* C1 witness: a later fetch returned an id that an earlier cycle had processed,
\* and that later cycle has run its for loop to the end
DedupWitness ==
    /\ pc = "cadence_sleep"
    /\ cycle = 2
    /\ \E j \in 1..Len(processed) : \E k \in 1..Len(fetched) :
        processed[j].cycle = 1 /\ fetched[k].id = processed[j].id

\* C2: whenever main has ended after client.connect returned, client.disconnect
\* was called.
DisconnectOnEveryExit == (pc = "done" /\ session) => disconnects > 0

\* C3: an exception raised by the fetch or by a command of a pulse leaves main
\* inside the monitoring loop.
ErrorKeepsMonitoring ==
    (errorAt \in LoopPoints /\ interrupted = "no") => pc \in LoopPoints \cup {"for"}

\* C4: when main has ended after an interrupt in the loop, the last command an
\* actuator received is 0.0, or none was received.
NoPulseLeftOn ==
    (pc = "done" /\ interrupted \in LoopPoints) =>
        (cmdLog = <<>> \/ Last(cmdLog).level = RZero)

\* C5: without error or interrupt the received commands alternate level,
\* release 0.0 to the same actuator for the same comment; the level commands
\* follow the order in which the comments were processed, and the comments of a
\* cycle are processed in the order of the fetched list.
PulsesSerialized ==
    (errorAt = "no" /\ interrupted = "no") =>
        /\ \A i \in 1..Len(cmdLog) :
            IF i % 2 = 1 THEN cmdLog[i].kind = "level"
            ELSE /\ cmdLog[i].kind = "release"
                 /\ cmdLog[i].level = RZero
                 /\ cmdLog[i].actuator = cmdLog[i - 1].actuator
                 /\ cmdLog[i].comment = cmdLog[i - 1].comment
        /\ LET levels == SelectSeq(cmdLog, LAMBDA c : c.kind = "level")
               pulsed == SelectSeq(processed, LAMBDA r : r.commanded)
           IN  /\ Len(levels) <= Len(pulsed)
               /\ \A i \in 1..Len(levels) :
                   levels[i].comment = pulsed[i].id /\ levels[i].cycle = pulsed[i].cycle
        /\ pc \in {"for", "cmd_level", "hold", "cmd_release", "cadence_sleep"} =>
            LET earlier == {processed[i].id : i \in {j \in 1..Len(processed) :
                                                        processed[j].cycle < cycle}}
                thisCycle == SelectSeq(processed, LAMBDA r : r.cycle = cycle)
            IN  Ids(thisCycle) \o Ids(new_comments) =
                    Ids(SelectSeq(fetched, LAMBDA c : c.id \notin earlier))

\* C5 witness: two comments of one cycle have had their full pulses, in order
PulsesWitness ==
    /\ errorAt = "no"
    /\ interrupted = "no"
    /\ Len(cmdLog) = 4
    /\ cmdLog[1].comment # cmdLog[3].comment
    /\ cmdLog[1].cycle = cmdLog[3].cycle
    /\ Ids(fetched) = <<cmdLog[1].comment, cmdLog[3].comment>>

\* C6: once an interrupt has been delivered in the loop, main is in its finally
\* clause or has ended, no fetch and no level command was started after the
\* interrupt, and main eventually ends with client.disconnect called.
CancelTerminates ==
    /\ [](interrupted \in LoopPoints =>
            (pc \in {"disconnect", "done"} /\ sinceInterrupt = 0))
    /\ (interrupted \in LoopPoints) ~> (pc = "done" /\ disconnects = 1)

\* C6 witness: main has ended after an interrupt during the hold of a pulse
CancelWitness == interrupted = "hold" /\ pc = "done" /\ disconnects = 1

\* C7: every command an actuator received carries a level in [0.0, 1.0].
CommandLevelInRange ==
    \A i \in 1..Len(cmdLog) :
        RLeq(RZero, cmdLog[i].level) /\ RLeq(cmdLog[i].level, ROne)

\* C8: the score argument of every calculate_intensity call of main is >= 1.
ScoreArgumentAtLeastOne == \A i \in 1..Len(processed) : processed[i].post_score >= 1

\* C9: calculate_intensity(s, boost) <= 1.0 for every score and every boost >= 0.
UpperClamp == call.fn = "calculate_intensity" => RLeq(call.result, ROne)

\* C9 witness: a call whose unclamped product exceeds 1.0
UpperClampWitness ==
    /\ call.fn = "calculate_intensity"
    /\ call.post_score > MAX_UPVOTES
    /\ RLeq(DEFAULT_MULTIPLIER, call.multiplier)
    /\ call.result = ROne

\* the value the cache file held under key when this run resolved its settings
Stored(key, default) ==
    IF ~args.reset /\ prevCacheFile.exists /\ prevCacheFile.valid
       /\ key \in DOMAIN prevCacheFile.doc
    THEN PyValue(prevCacheFile.doc[key])
    ELSE default

\* C10 as stated: every field is the override when one was given, whatever its
\* value; else the cached value; else the default.
OverrideAlwaysWins ==
    startup = "ready" =>
        /\ POST_ID = IF args.id # None THEN args.id.some
                     ELSE Stored("post_id", DEFAULT_POST_ID)
        /\ MIN_INTENSITY = IF args.minimum # None THEN args.minimum.some
                           ELSE Stored("min_intensity", DEFAULT_MIN_INTENSITY)
        /\ MAX_UPVOTES = IF args.max_upvotes # None THEN args.max_upvotes.some
                         ELSE Stored("max_upvotes", DEFAULT_MAX_UPVOTES)
        /\ KEYWORD_LIST = IF args.keywords # None THEN Split(args.keywords.some, ",")
                          ELSE Stored("keywords", DEFAULT_KEYWORDS)
        /\ KEYWORD_INTENSITY_MULTIPLIER =
               IF args.multiplier # None THEN args.multiplier.some
               ELSE Stored("multiplier", DEFAULT_MULTIPLIER)

\* C10 amended: as above, except that an empty string given for the post id or
\* for the keywords counts as no override; 0 and 0.0 do count.
SettingsPrecedence ==
    startup = "ready" =>
        /\ POST_ID = IF args.id # None /\ Len(args.id.some) > 0 THEN args.id.some
                     ELSE Stored("post_id", DEFAULT_POST_ID)
        /\ MIN_INTENSITY = IF args.minimum # None THEN args.minimum.some
                           ELSE Stored("min_intensity", DEFAULT_MIN_INTENSITY)
        /\ MAX_UPVOTES = IF args.max_upvotes # None THEN args.max_upvotes.some
                         ELSE Stored("max_upvotes", DEFAULT_MAX_UPVOTES)
        /\ KEYWORD_LIST = IF args.keywords # None /\ Len(args.keywords.some) > 0
                          THEN Split(args.keywords.some, ",")
                          ELSE Stored("keywords", DEFAULT_KEYWORDS)
        /\ KEYWORD_INTENSITY_MULTIPLIER =
               IF args.multiplier # None THEN args.multiplier.some
               ELSE Stored("multiplier", DEFAULT_MULTIPLIER)

\* C10 witness: an empty post id fell through to the cached one while a 0.0
\* minimum and a 0 max-upvotes override replaced the cached values
SettingsPrecedenceWitness ==
    /\ startup = "ready"
    /\ ~args.reset
    /\ args.id = Some(<<>>)
    /\ args.minimum = Some(RZero)
    /\ args.max_upvotes = Some(0)
    /\ prevCacheFile.exists /\ prevCacheFile.valid
    /\ {"post_id", "min_intensity", "max_upvotes"} \subseteq DOMAIN prevCacheFile.doc
    /\ POST_ID = PyValue(prevCacheFile.doc["post_id"])
    /\ MIN_INTENSITY = RZero
    /\ MAX_UPVOTES = 0

\* C11: a start without overrides and without reset that follows a start which
\* resolved its settings and wrote the cache resolves the same five values and
\* writes the same cache content.
SettingsRoundTrip ==
    [][(startup = "ready" /\ runs' = runs + 1 /\ args' = NoArgs) =>
          /\ startup' = "ready"
          /\ settingsVars' = settingsVars
          /\ cacheFile' = cacheFile]_vars

\* C11 witness: the second start, without overrides, has the minimum and the
\* multiplier that only overrides of the first start can have produced
SettingsRoundTripWitness ==
    /\ runs = 2
    /\ startup = "ready"
    /\ args = NoArgs
    /\ MIN_INTENSITY = <<3, 10>>
    /\ KEYWORD_INTENSITY_MULTIPLIER = <<2, 1>>
    /\ cacheFile = prevCacheFile

\* the cache content that holds the built-in defaults
DefaultsFile ==
    ValidFile([post_id |-> JString(DEFAULT_POST_ID),
               min_intensity |-> JReal(DEFAULT_MIN_INTENSITY),
               max_upvotes |-> JInt(DEFAULT_MAX_UPVOTES),
               keywords |-> JArray([i \in 1..Len(DEFAULT_KEYWORDS) |->
                                        JString(DEFAULT_KEYWORDS[i])]),
               multiplier |-> JReal(DEFAULT_MULTIPLIER)])

\* C12: a start with the reset flag and no override ends with the five defaults
\* in effect and in the cache, whatever the cache held.
ResetGivesDefaults ==
    (runs > 0 /\ args = [NoArgs EXCEPT !.reset = TRUE]) =>
        /\ startup = "ready"
        /\ POST_ID = DEFAULT_POST_ID
        /\ MIN_INTENSITY = DEFAULT_MIN_INTENSITY
        /\ MAX_UPVOTES = DEFAULT_MAX_UPVOTES
        /\ KEYWORD_LIST = DEFAULT_KEYWORDS
        /\ KEYWORD_INTENSITY_MULTIPLIER = DEFAULT_MULTIPLIER
        /\ cacheFile = DefaultsFile

\* C12 witness: the reset start found a cache written by a start with overrides
ResetWitness ==
    /\ runs = 2
    /\ args = [NoArgs EXCEPT !.reset = TRUE]
    /\ prevCacheFile.exists /\ prevCacheFile.valid
    /\ prevCacheFile.doc["min_intensity"] = JReal(<<3, 10>>)
    /\ prevCacheFile.doc["post_id"] = JString(<<"p">>)
    /\ cacheFile = DefaultsFile

\* C13: a start that finds no cache file or a malformed one does not fail and
\* resolves as from an empty cache.
CacheRobust ==
    (runs > 0 /\ (~prevCacheFile.exists \/ ~prevCacheFile.valid)) =>
        (startup = "ready" /\ cached = EmptyDict)

\* C14: when client.connect raises, main has ended and has never fetched,
\* marked a comment seen, classified a comment or had a command received.
ConnectFailureIsFatal ==
    errorAt = "connect" =>
        /\ pc = "done"
        /\ cycle = 0
        /\ seen_comment_ids = {}
        /\ processed = <<>>
        /\ cmdLog = <<>>

\* C14 witness: main has ended after client.connect raised
ConnectFailureWitness == errorAt = "connect" /\ pc = "done" /\ ~session

\* C15: a comment met while client.devices is empty, or while the first device
\* has no actuator, leaves the command log and the error state as they were and
\* main goes on in the for loop with the rest of the list.
NoDeviceIsNoOp ==
    [][(pc = "for" /\ new_comments # <<>>
        /\ (devices = <<>> \/ devices[1] = <<>>)) =>
          /\ pc' = "for"
          /\ new_comments' = Tail(new_comments)
          /\ cmdLog' = cmdLog
          /\ errorAt' = errorAt
          /\ disconnects' = disconnects]_vars

\* C15 witness: after a comment met without a device the loop has started a
\* later cycle
NoDeviceWitness ==
    /\ cycle = 2
    /\ pc = "fetch"
    /\ errorAt = "no"
    /\ \E j \in 1..Len(processed) : processed[j].cycle = 1 /\ ~processed[j].commanded

\* C18 as stated: a comment's pulse is started exactly when some connected
\* device, first in the list or not, has an actuator.
PulseWheneverAnyActuator ==
    [][(pc = "for" /\ new_comments # <<>>) =>
          ((pc' = "cmd_level") <=> (\E d \in 1..Len(devices) : devices[d] # <<>>))]_vars

\* C18 amended: the pulse is skipped exactly when no device is connected or the
\* first device of the list has no actuator; otherwise the level goes to the
\* first actuator of the first device.
PulseOnFirstDevice ==
    [][(pc = "for" /\ new_comments # <<>>) =>
          IF devices # <<>> /\ devices[1] # <<>>
          THEN /\ pc' = "cmd_level"
               /\ actuator' = devices[1][1]
               /\ intensity' = Last(processed').intensity
               /\ Last(processed').id = Head(new_comments).id
          ELSE pc' = "for" /\ cmdLog' = cmdLog]_vars

\* C18 witness: a comment was passed over although the second device of the
\* list has an actuator
SecondDeviceWitness ==
    /\ pc = "for"
    /\ deviceChanges = 0
    /\ devices = << <<>>, <<"a3">> >>
    /\ processed # <<>>
    /\ ~Last(processed).commanded
    /\ Last(processed).cycle = cycle
    /\ cmdLog = <<>>

\* C19: while a fetch is in progress, during the cadence sleep and between the
\* comments of the for loop the last command received is a release with 0.0,
\* or no command was received.
IdleMeansReleased ==
    pc \in {"fetch", "cadence_sleep", "for"} =>
        (cmdLog = <<>> \/ (Last(cmdLog).kind = "release" /\ Last(cmdLog).level = RZero))

\* C19 witness: the cadence sleep after a cycle in which a pulse was completed
IdleWitness ==
    /\ pc = "cadence_sleep"
    /\ cmdLog # <<>>
    /\ Last(cmdLog).cycle = cycle
    /\ Last(cmdLog).kind = "release"

\* C20: every classified comment is in the seen set; a comment that was passed
\* over for want of a device or actuator has no command in the log, ever.
SeenBeforePulse ==
    \A j \in 1..Len(processed) :
        /\ processed[j].id \in seen_comment_ids
        /\ ~processed[j].commanded =>
               \A i \in 1..Len(cmdLog) : cmdLog[i].comment # processed[j].id

\* C20 witness: a comment passed over in the first cycle is listed again in the
\* second, where a device is present and another comment has had its pulse
SeenBeforePulseWitness ==
    /\ cycle = 2
    /\ pc = "cadence_sleep"
    /\ devices # <<>> /\ devices[1] # <<>>
    /\ \E j \in 1..Len(processed) :
        /\ processed[j].cycle = 1
        /\ ~processed[j].commanded
        /\ \E k \in 1..Len(fetched) : fetched[k].id = processed[j].id
    /\ \E i \in 1..Len(cmdLog) : cmdLog[i].cycle = 2

\* C17: with multiplier 1.0, of two calls with scores 1 <= s <= t <= MAX_UPVOTES
\* the one with t returns at least what the one with s returns, and a call with
\* score MAX_UPVOTES returns 1.0.
MonotonicMapping ==
    /\ [][(/\ call.fn = "calculate_intensity"
           /\ call'.fn = "calculate_intensity"
           /\ call.multiplier = ROne
           /\ call'.multiplier = ROne
           /\ 1 <= call.post_score
           /\ call.post_score <= call'.post_score
           /\ call'.post_score <= MAX_UPVOTES) =>
             RLeq(call.result, call'.result)]_vars
    /\ []((/\ call.fn = "calculate_intensity"
           /\ call.multiplier = ROne
           /\ call.post_score = MAX_UPVOTES) => call.result = ROne)

\* C17 witness: full intensity reached at score MAX_UPVOTES = 3 from a minimum
\* below 1
MonotonicWitness ==
    /\ call.fn = "calculate_intensity"
    /\ call.multiplier = ROne
    /\ MAX_UPVOTES = 3
    /\ call.post_score = 3
    /\ MIN_INTENSITY = DEFAULT_MIN_INTENSITY
    /\ call.result = ROne

\* C16: the multiplier chosen for a body is KEYWORD_INTENSITY_MULTIPLIER exactly
\* when some trigger occurs in the body as a substring, letter case ignored on
\* both sides, and 1.0 otherwise.
CaseInsensitiveMatch ==
    call.fn = "Boost" =>
        LET hit == \E k \in 1..Len(KEYWORD_LIST) :
                       StrIn(StrLower(KEYWORD_LIST[k]), StrLower(call.body))
        IN  /\ call.detected = hit
            /\ call.result = IF hit THEN KEYWORD_INTENSITY_MULTIPLIER ELSE ROne

====
